---------------------------- MODULE Spec2Model ----------------------------
(***************************************************************************)
(* A model of geomag.hpp: the coefficient store ConstModel (epoch and four *)
(* flattened triangular tables, read through C and S) and the synthesizer  *)
(* GeoMag, a double loop over (n, m) that updates the V/W recursion and    *)
(* accumulates px, py, pz.                                                 *)
(*                                                                         *)
(* A float is modelled by a record.  [k |-> "q", v |-> r] is an exact      *)
(* rational number, held as its residue r modulo the prime P: the map      *)
(* from the rationals whose denominator P does not divide onto GF(P)       *)
(* preserves +, -, * and /, so every identity of exact arithmetic is an    *)
(* identity of the residues.  Rounding is not modelled in this domain.     *)
(* [k |-> "top"] is an indeterminate float (the value of an out-of-bounds  *)
(* read).  [k |-> "lit"] is a literal of the program text, and the kinds   *)
(* "zero", "fin", "inf" and "nan" make up a second domain that follows the *)
(* magnitude of a single-precision value, overflow and NaN included.       *)
(***************************************************************************)
EXTENDS Integers, Sequences, FiniteSets, TLC

\* ------------------------------------------------------------------ bounds
NumCalls == 2          \* invocations of GeoMag that may be in flight together
MaxCoeff == 4          \* table entries are integers in -MaxCoeff .. MaxCoeff
MaxHalfYears == 4      \* dyear is epoch + h/2 for h in 0 .. MaxHalfYears
MantBits == 5          \* mantissa bits of a magnitude bound
MaxPosExp == 24        \* magnitude coordinates are below 2^MaxPosExp metres

\* ------------------------------------------------- constants of the header
NMAX == 12
NUMCOF == ((NMAX + 1) * (NMAX + 2)) \div 2

\* --------------------------------------------------------- exact arithmetic
P == 2^13 - 1          \* a prime; residues multiply inside 32 bits

Q(i) == [k |-> "q", v |-> i % P]
Top == [k |-> "top"]

\* F applied to the value of e, and Op to the values of x and y: the operand
\* is evaluated once, as a statement or an operator of the program does
Then(e, F(_)) == CHOOSE r \in {F(x) : x \in {e}} : TRUE
Strict2(x, y, Op(_, _)) == CHOOSE r \in {Op(a, b) : a \in {x}, b \in {y}} : TRUE

RECURSIVE PowMod(_, _)
PowMod(b, e) ==
    IF e = 0 THEN 1
    ELSE Then(PowMod(b, e \div 2),
              LAMBDA h : IF e % 2 = 1 THEN (((h * h) % P) * b) % P ELSE (h * h) % P)

InvMod(i) == PowMod(i % P, P - 2)

\* a float literal or a converted int of the program text: the rational n/d
Lit(n, d) == [k |-> "lit", n |-> n, d |-> d]
\* the inverses of the small denominators: 2 and the n - m of the loops
Inverse == [d \in 1..(NMAX + 1) |-> InvMod(d)]
LitToQ(l) ==
    IF l.d = 1 THEN Q(l.n)
    ELSE IF l.d \in DOMAIN Inverse THEN Q((l.n % P) * Inverse[l.d])
    ELSE Q((l.n % P) * InvMod(l.d))
ToQ(a) == IF a.k = "lit" THEN LitToQ(a) ELSE a

AddQ(a, b) == IF a.k = "q" /\ b.k = "q" THEN Q(a.v + b.v) ELSE Top
MulQ(a, b) == IF a.k = "q" /\ b.k = "q" THEN Q(a.v * b.v) ELSE Top
DivQ(a, b) ==
    IF a.k = "q" /\ b.k = "q" /\ b.v # 0 THEN Q(a.v * InvMod(b.v)) ELSE Top
\* sqrtf of an exact value: the inputs of the exact domain have a norm whose
\* square is a perfect square below P, so the residue is the number itself.
SqrtQ(a) ==
    IF \E r \in 0..a.v : r * r = a.v
    THEN Q(CHOOSE r \in 0..a.v : r * r = a.v)
    ELSE Top

\* ----------------------------------------------------- magnitude arithmetic
\* The second domain follows the size of a single-precision value rather than
\* its digits.  A bound [m |-> m, e |-> e] is the number m * 2^e with a
\* mantissa of MantBits bits; it is itself a float, and rounding to nearest is
\* monotone, so a bound on the exact result of an operation is a bound on its
\* rounded result.  Lower bounds are rounded down and upper bounds up.
\*   [k |-> "zero"]                   the value 0
\*   [k |-> "fin", s, lo, hi]         finite, lo <= |v| <= hi, of sign s
\*                                    (1: v >= 0, -1: v <= 0, 0: not known);
\*                                    lo = NoLow when v may be 0
\*   [k |-> "inf", s]                 an infinity of sign s
\*   [k |-> "nan"]                    not a number
\* and Top is a float of which nothing is known.
FLT_MAX_EXP == 128         \* every float is below 2^FLT_MAX_EXP in magnitude
FLT_TRUE_MIN_EXP == -149   \* the smallest positive float is 2^FLT_TRUE_MIN_EXP

RECURSIVE Norm(_, _, _)
Norm(m, e, up) ==
    IF m >= 2^MantBits
    THEN Norm(IF up THEN (m + 1) \div 2 ELSE m \div 2, e + 1, up)
    ELSE IF m < 2^(MantBits - 1) THEN Norm(2 * m, e - 1, up)
    ELSE [m |-> m, e |-> e]
NoLow == [m |-> 0, e |-> 0]

MulB(a, b, up) == Norm(a.m * b.m, a.e + b.e, up)
AddB(a, b, up) ==
    LET big == IF a.e >= b.e THEN a ELSE b
        small == IF a.e >= b.e THEN b ELSE a
        d == big.e - small.e
    IN  IF d > MantBits + 1
        THEN IF up THEN Norm(2 * big.m + 1, big.e - 1, TRUE) ELSE big
        ELSE Norm(big.m * 2^d + small.m, small.e, up)
DivB(a, b, up) ==
    LET n == a.m * 2^(MantBits + 1)
    IN  Norm(IF up THEN (n + b.m - 1) \div b.m ELSE n \div b.m,
             a.e - b.e - (MantBits + 1), up)
SqrtB(a, up) ==
    LET odd == a.e % 2 = 1
        M == (IF odd THEN 2 * a.m ELSE a.m) * 2^(2 * MantBits)
        e == IF odd THEN a.e - 1 ELSE a.e
        r == CHOOSE r \in 0..2^(2 * MantBits) : r * r <= M /\ (r + 1) * (r + 1) > M
    IN  Norm(IF up /\ r * r < M THEN r + 1 ELSE r, e \div 2 - MantBits, up)

Zero == [k |-> "zero"]
NaN == [k |-> "nan"]
Inf(s) == [k |-> "inf", s |-> s]
\* the float that rounding makes of an exact result of sign s with
\* lo <= |result| <= hi: an infinity when it is surely out of range, not
\* known when it may be, and a value that may be 0 when it may underflow
Fit(s, lo, hi) ==
    IF lo # NoLow /\ lo.e + MantBits - 1 >= FLT_MAX_EXP THEN Inf(s)
    ELSE IF hi.e + MantBits > FLT_MAX_EXP THEN Top
    ELSE [k |-> "fin", s |-> s,
          lo |-> IF lo # NoLow /\ lo.e < FLT_TRUE_MIN_EXP THEN NoLow ELSE lo,
          hi |-> IF hi.e < FLT_TRUE_MIN_EXP
                 THEN [m |-> 2^(MantBits - 1), e |-> FLT_TRUE_MIN_EXP] ELSE hi]
LitToMag(l) ==
    IF l.n = 0 THEN Zero
    ELSE LET n == IF l.n > 0 THEN l.n ELSE 0 - l.n
         IN  Fit(IF l.n > 0 THEN 1 ELSE -1,
                 DivB(Norm(n, 0, FALSE), Norm(l.d, 0, TRUE), FALSE),
                 DivB(Norm(n, 0, TRUE), Norm(l.d, 0, FALSE), TRUE))
ToMag(a) == IF a.k = "lit" THEN LitToMag(a) ELSE a

MayBeZero(a) == a.k = "fin" /\ a.lo = NoLow
AddM(a, b) ==
    IF "nan" \in {a.k, b.k} THEN NaN
    ELSE IF "top" \in {a.k, b.k} THEN Top
    ELSE IF a.k = "zero" THEN b
    ELSE IF b.k = "zero" THEN a
    ELSE IF a.k = "inf" /\ b.k = "inf"
         THEN IF a.s = 0 \/ b.s = 0 THEN Top ELSE IF a.s = b.s THEN a ELSE NaN
    ELSE IF a.k = "inf" THEN a
    ELSE IF b.k = "inf" THEN b
    ELSE IF a.s = b.s /\ a.s # 0
         THEN Fit(a.s,
                  IF a.lo = NoLow THEN b.lo
                  ELSE IF b.lo = NoLow THEN a.lo ELSE AddB(a.lo, b.lo, FALSE),
                  AddB(a.hi, b.hi, TRUE))
    ELSE Fit(0, NoLow, AddB(a.hi, b.hi, TRUE))
MulM(a, b) ==
    IF "nan" \in {a.k, b.k} THEN NaN
    ELSE IF "top" \in {a.k, b.k} THEN Top
    ELSE IF "zero" \in {a.k, b.k} THEN IF "inf" \in {a.k, b.k} THEN NaN ELSE Zero
    ELSE IF "inf" \in {a.k, b.k}
         THEN IF MayBeZero(a) \/ MayBeZero(b) THEN Top ELSE Inf(a.s * b.s)
    ELSE Fit(a.s * b.s,
             IF a.lo = NoLow \/ b.lo = NoLow THEN NoLow ELSE MulB(a.lo, b.lo, FALSE),
             MulB(a.hi, b.hi, TRUE))
DivM(a, b) ==
    IF "nan" \in {a.k, b.k} THEN NaN
    ELSE IF "top" \in {a.k, b.k} THEN Top
    ELSE IF b.k = "zero"
         THEN IF a.k = "zero" THEN NaN
              ELSE IF MayBeZero(a) THEN Top ELSE Inf(0)
    ELSE IF b.k = "inf" THEN IF a.k = "inf" THEN NaN ELSE Zero
    ELSE IF b.lo = NoLow THEN Top
    ELSE IF a.k = "zero" THEN Zero
    ELSE IF a.k = "inf" THEN Inf(a.s * b.s)
    ELSE Fit(a.s * b.s,
             IF a.lo = NoLow THEN NoLow ELSE DivB(a.lo, b.hi, FALSE),
             DivB(a.hi, b.lo, TRUE))
SqrtM(a) ==
    IF a.k \in {"nan", "zero", "top"} THEN a
    ELSE IF a.s # 1 THEN Top
    ELSE IF a.k = "inf" THEN a
    ELSE Fit(1, IF a.lo = NoLow THEN NoLow ELSE SqrtB(a.lo, FALSE), SqrtB(a.hi, TRUE))

\* ------------------------------------------------------ the float operators
\* two literals combine as rationals; a literal and a value combine in the
\* domain of the value
NegV(a) ==
    IF a.k = "lit" THEN Lit(0 - a.n, a.d)
    ELSE IF a.k = "q" THEN Q(0 - a.v)
    ELSE IF a.k \in {"fin", "inf"} THEN [a EXCEPT !.s = 0 - a.s]
    ELSE a
AddV(a, b) ==
    IF a.k = "q" /\ b.k = "q" THEN Q(a.v + b.v)
    ELSE IF a.k = "lit" /\ b.k = "lit" THEN Lit(a.n * b.d + b.n * a.d, a.d * b.d)
    ELSE IF a.k = "q" \/ b.k = "q" THEN AddQ(ToQ(a), ToQ(b))
    ELSE AddM(ToMag(a), ToMag(b))
SubV(a, b) == AddV(a, NegV(b))
MulV(a, b) ==
    IF a.k = "q" /\ b.k = "q" THEN Q(a.v * b.v)
    ELSE IF a.k = "lit" /\ b.k = "lit" THEN Lit(a.n * b.n, a.d * b.d)
    ELSE IF a.k = "q" \/ b.k = "q" THEN MulQ(ToQ(a), ToQ(b))
    ELSE MulM(ToMag(a), ToMag(b))
DivV(a, b) ==
    IF a.k = "lit" /\ b.k = "lit" /\ b.n # 0
    THEN IF b.n > 0 THEN Lit(a.n * b.d, a.d * b.n)
         ELSE Lit(0 - a.n * b.d, 0 - a.d * b.n)
    ELSE IF a.k = "q" \/ b.k = "q" THEN DivQ(ToQ(a), ToQ(b))
    ELSE DivM(ToMag(a), ToMag(b))
SqrtV(a) == IF a.k = "q" THEN SqrtQ(a) ELSE SqrtM(ToMag(a))

FAdd(x, y) == Strict2(x, y, AddV)
FSub(x, y) == Strict2(x, y, SubV)
FMul(x, y) == Strict2(x, y, MulV)
FDiv(x, y) == Strict2(x, y, DivV)
FNeg(x) == Then(x, NegV)
FSqrt(x) == Then(x, SqrtV)
FromInt(i) == Lit(i, 1)
Half == Lit(1, 2)
NanoTesla == Lit(1, 10^9)

\* ------------------------------------------------------- coefficient store
EARTH_R == Lit(6371200, 1)

\* a slip in the closed form: the row offset without its + 1
IndexShort(n, m) == (m * (2 * NMAX - m)) \div 2 + n
\* int index= (m*(2*NMAX-m+1))/2+n;
Index(n, m) == (m * (2 * NMAX - m + 1)) \div 2 + n

Read(T, i) == IF i \in DOMAIN T THEN T[i] ELSE Top

\* C with the elapsed time taken as dyear, the epoch not subtracted
CNoEpoch(W, n, m, dyear) ==
    LET index == Index(n, m)
    IN  FAdd(Read(W.Main_Field_Coeff_C, index),
             FMul(dyear, Read(W.Secular_Var_Coeff_C, index)))
\* C with the elapsed time squared
CSquare(W, n, m, dyear) ==
    LET index == Index(n, m)
        dt == FSub(dyear, W.epoch)
    IN  FAdd(Read(W.Main_Field_Coeff_C, index),
             FMul(FMul(dt, dt), Read(W.Secular_Var_Coeff_C, index)))
\* C with the secular variation taken from the S table
CReadsS(W, n, m, dyear) ==
    LET index == Index(n, m)
    IN  FAdd(Read(W.Main_Field_Coeff_C, index),
             FMul(FSub(dyear, W.epoch), Read(W.Secular_Var_Coeff_S, index)))
\* float C(int n, int m, float dyear) const, on the store W
C(W, n, m, dyear) ==
    LET index == Index(n, m)
    IN  FAdd(Read(W.Main_Field_Coeff_C, index),
             FMul(FSub(dyear, W.epoch), Read(W.Secular_Var_Coeff_C, index)))

\* float S(int n, int m, float dyear) const, on the store W
S(W, n, m, dyear) ==
    LET index == Index(n, m)
    IN  FAdd(Read(W.Main_Field_Coeff_S, index),
             FMul(FSub(dyear, W.epoch), Read(W.Secular_Var_Coeff_S, index)))

\* The stores: the header defines three ConstModel constants.  Their entries
\* are stood in for by small integers, a different sequence for each table.
Entry(seed, i) == ((i * i * seed + 7 * i + 3 * seed) % (2 * MaxCoeff + 1)) - MaxCoeff
Table(seed) == [i \in 0..(NUMCOF - 1) |-> Q(Entry(seed, i))]
ConstModel(e, mc, ms, sc, ss) ==
    [epoch |-> Q(e),
     Main_Field_Coeff_C |-> Table(mc),
     Main_Field_Coeff_S |-> Table(ms),
     Secular_Var_Coeff_C |-> Table(sc),
     Secular_Var_Coeff_S |-> Table(ss)]
ModelNames == {"WMM2015", "WMM2015v2", "WMM2020"}
Models ==
    [id \in ModelNames |->
        CASE id = "WMM2015"   -> ConstModel(2015, 1, 2, 3, 4)
          [] id = "WMM2015v2" -> ConstModel(2015, 1, 2, 5, 6)
          [] id = "WMM2020"   -> ConstModel(2020, 7, 8, 9, 10)]

\* ------------------------------------------------------------------ GeoMag
Vector(x, y, z) == [x |-> x, y |-> y, z |-> z]

\* Prologue with temp divided by the norm r, not by its square
PrologueTempByNorm(position_itrs) ==
    LET x == position_itrs.x
        y == position_itrs.y
        z == position_itrs.z
        rsqrd == FAdd(FAdd(FMul(x, x), FMul(y, y)), FMul(z, z))
        temp == FDiv(EARTH_R, FSqrt(rsqrd))
        Vtop == FDiv(EARTH_R, FSqrt(rsqrd))
        Wtop == FromInt(0)
    IN  [x |-> x, y |-> y, z |-> z,
         px |-> FromInt(0), py |-> FromInt(0), pz |-> FromInt(0),
         rsqrd |-> rsqrd, temp |-> temp,
         a |-> FMul(x, temp), b |-> FMul(y, temp),
         f |-> FMul(z, temp), g |-> FMul(EARTH_R, temp),
         n |-> 0, m |-> 0,
         Vtop |-> Vtop, Wtop |-> Wtop, Vprev |-> FromInt(0), Wprev |-> FromInt(0),
         Vnm |-> Vtop, Wnm |-> Wtop,
         reads |-> {}, rules |-> {}, seenC |-> {}]
\* lines 90-110 and the initialisation of the two loops: the locals on
\* arrival at the first evaluation of the loop body.  reads is a history
\* field: the coefficient lookups of the latest pass through the body;
\* rules is another: the accumulation rules that pass applied.
Prologue(position_itrs) ==
    LET x == position_itrs.x
        y == position_itrs.y
        z == position_itrs.z
        rsqrd == FAdd(FAdd(FMul(x, x), FMul(y, y)), FMul(z, z))
        temp == FDiv(EARTH_R, rsqrd)
        Vtop == FDiv(EARTH_R, FSqrt(rsqrd))
        Wtop == FromInt(0)
    IN  [x |-> x, y |-> y, z |-> z,
         px |-> FromInt(0), py |-> FromInt(0), pz |-> FromInt(0),
         rsqrd |-> rsqrd, temp |-> temp,
         a |-> FMul(x, temp), b |-> FMul(y, temp),
         f |-> FMul(z, temp), g |-> FMul(EARTH_R, temp),
         n |-> 0, m |-> 0,
         Vtop |-> Vtop, Wtop |-> Wtop, Vprev |-> FromInt(0), Wprev |-> FromInt(0),
         Vnm |-> Vtop, Wnm |-> Wtop,
         reads |-> {}, rules |-> {}, seenC |-> {}]

\* Diagonal without the reset of Vprev and Wprev
DiagonalKeepsPrev(l) ==
    IF l.m # 0
    THEN LET temp == l.Vtop
             Vtop == FMul(FromInt(2 * l.m - 1),
                          FSub(FMul(l.a, l.Vtop), FMul(l.b, l.Wtop)))
             Wtop == FMul(FromInt(2 * l.m - 1),
                          FAdd(FMul(l.a, l.Wtop), FMul(l.b, temp)))
         IN  [l EXCEPT !.temp = temp, !.Vtop = Vtop, !.Wtop = Wtop,
                       !.Vnm = Vtop, !.Wnm = Wtop]
    ELSE l

\* lines 118-128: n == m
Diagonal(l) ==
    IF l.m # 0
    THEN LET temp == l.Vtop
             Vtop == FMul(FromInt(2 * l.m - 1),
                          FSub(FMul(l.a, l.Vtop), FMul(l.b, l.Wtop)))
             Wtop == FMul(FromInt(2 * l.m - 1),
                          FAdd(FMul(l.a, l.Wtop), FMul(l.b, temp)))
         IN  [l EXCEPT !.temp = temp, !.Vtop = Vtop, !.Wtop = Wtop,
                       !.Vprev = FromInt(0), !.Wprev = FromInt(0),
                       !.Vnm = Vtop, !.Wnm = Wtop]
    ELSE l

\* lines 129-137: n > m
Vertical(l) ==
    LET n == l.n
        m == l.m
        invs_temp == FDiv(Lit(1, 1), FromInt(n - m))
        Vnm == FMul(FSub(FMul(FMul(FromInt(2 * n - 1), l.f), l.Vnm),
                         FMul(FMul(FromInt(n + m - 1), l.g), l.Vprev)),
                    invs_temp)
        Wnm == FMul(FSub(FMul(FMul(FromInt(2 * n - 1), l.f), l.Wnm),
                         FMul(FMul(FromInt(n + m - 1), l.g), l.Wprev)),
                    invs_temp)
    IN  [l EXCEPT !.temp = l.Wnm, !.Vnm = Vnm, !.Vprev = l.Vnm,
                  !.Wnm = Wnm, !.Wprev = l.Wnm]

\* the conditions of the four accumulation rules, lines 138, 142, 146, 150
Guard1(n, m) == m < NMAX /\ n >= m + 2
Guard2(n, m) == n >= 2 /\ m >= 2
\* the order-1 rule taken for every order from 1 up
Guard3Wide(n, m) == m >= 1 /\ n >= 2
Guard3(n, m) == m = 1 /\ n >= 2
\* the pz rule from degree 1 up
Guard4FromDegreeOne(n, m) == n >= 1 /\ n > m
\* the pz rule with n >= m for n > m
Guard4Weak(n, m) == n >= 2 /\ n >= m
Guard4(n, m) == n >= 2 /\ n > m

Lookup(fn, n, m) == [fn |-> fn, n |-> n, m |-> m, index |-> Index(n, m)]

\* lines 139-140
Rule1(l, dyear, W) ==
    LET n == l.n
        m == l.m
        w == FMul(FMul(Half, FromInt(n - m)), FromInt(n - m - 1))
        c == C(W, n - 1, m + 1, dyear)
        s == S(W, n - 1, m + 1, dyear)
    IN  [l EXCEPT
           !.px = FAdd(l.px, FMul(w, FAdd(FMul(c, l.Vnm), FMul(s, l.Wnm)))),
           !.py = FAdd(l.py, FMul(w, FAdd(FMul(FNeg(c), l.Wnm), FMul(s, l.Vnm)))),
           !.reads = l.reads \cup {Lookup("C", n - 1, m + 1), Lookup("S", n - 1, m + 1)},
           !.rules = l.rules \cup {1}]

\* lines 143-144
Rule2(l, dyear, W) ==
    LET n == l.n
        m == l.m
        c == C(W, n - 1, m - 1, dyear)
        s == S(W, n - 1, m - 1, dyear)
    IN  [l EXCEPT
           !.px = FAdd(l.px, FMul(Half, FSub(FMul(FNeg(c), l.Vnm), FMul(s, l.Wnm)))),
           !.py = FAdd(l.py, FMul(Half, FAdd(FMul(FNeg(c), l.Wnm), FMul(s, l.Vnm)))),
           !.reads = l.reads \cup {Lookup("C", n - 1, m - 1), Lookup("S", n - 1, m - 1)},
           !.rules = l.rules \cup {2}]

\* lines 147-148
Rule3(l, dyear, W) ==
    LET n == l.n
        c == C(W, n - 1, 0, dyear)
    IN  [l EXCEPT
           !.px = FAdd(l.px, FMul(FNeg(c), l.Vnm)),
           !.py = FAdd(l.py, FMul(FNeg(c), l.Wnm)),
           !.reads = l.reads \cup {Lookup("C", n - 1, 0)},
           !.rules = l.rules \cup {3}]

\* line 151
Rule4(l, dyear, W) ==
    LET n == l.n
        m == l.m
        c == C(W, n - 1, m, dyear)
        s == S(W, n - 1, m, dyear)
    IN  [l EXCEPT
           !.pz = FAdd(l.pz, FMul(FromInt(n - m),
                                  FSub(FMul(FNeg(c), l.Vnm), FMul(s, l.Wnm)))),
           !.reads = l.reads \cup {Lookup("C", n - 1, m), Lookup("S", n - 1, m)},
           !.rules = l.rules \cup {4}]

\* Advance with the next inner loop started at n = 0
AdvanceFromZero(l) ==
    IF l.n + 1 <= NMAX + 1
    THEN [l EXCEPT !.n = l.n + 1]
    ELSE [l EXCEPT !.m = l.m + 1, !.n = IF l.m + 1 <= NMAX + 1 THEN 0 ELSE l.n + 1]
\* Advance with the inner loop stopping at NMAX
AdvanceToNMAX(l) ==
    IF l.n + 1 <= NMAX
    THEN [l EXCEPT !.n = l.n + 1]
    ELSE [l EXCEPT !.m = l.m + 1, !.n = IF l.m + 1 <= NMAX + 1 THEN l.m + 1 ELSE l.n + 1]

\* the n++ of the inner loop and, when it ends, the m++ of the outer one and
\* the n = m of the next inner loop (lines 113, 116)
Advance(l) ==
    IF l.n + 1 <= NMAX + 1
    THEN [l EXCEPT !.n = l.n + 1]
    ELSE [l EXCEPT !.m = l.m + 1, !.n = IF l.m + 1 <= NMAX + 1 THEN l.m + 1 ELSE l.n + 1]

\* the pairs (degree, order) of the lookups of WMM.C among the lookups rs
CPairs(rs) == {<<r.n, r.m>> : r \in {r \in rs : r.fn = "C"}}

\* one pass through the body of the inner loop, lines 117-153, at (l.n, l.m);
\* seenC is a history field, the pairs passed to WMM.C since the call began
Body(l, dyear, W) ==
    Then(Then(Then(Then(Then(Then([l EXCEPT !.reads = {}, !.rules = {}],
        LAMBDA x : IF x.n = x.m THEN Diagonal(x) ELSE Vertical(x)),
        LAMBDA x : IF Guard1(x.n, x.m) THEN Rule1(x, dyear, W) ELSE x),
        LAMBDA x : IF Guard2(x.n, x.m) THEN Rule2(x, dyear, W) ELSE x),
        LAMBDA x : IF Guard3(x.n, x.m) THEN Rule3(x, dyear, W) ELSE x),
        LAMBDA x : IF Guard4(x.n, x.m) THEN Rule4(x, dyear, W) ELSE x),
        LAMBDA x : Advance([x EXCEPT !.seenC = x.seenC \cup CPairs(x.reads)]))

\* line 113: the condition of the outer loop
InLoop(l) == l.m <= NMAX + 1

\* line 155
Result(l) ==
    Vector(FMul(FNeg(l.px), NanoTesla), FMul(FNeg(l.py), NanoTesla),
           FMul(FNeg(l.pz), NanoTesla))

\* GeoMag as a function of its arguments: the two loops run to their end
RECURSIVE InnerLoop(_, _, _)
InnerLoop(l, dyear, W) ==
    LET l1 == Body(l, dyear, W)
    IN  IF l1.m = l.m THEN InnerLoop(l1, dyear, W) ELSE l1
RECURSIVE OuterLoop(_, _, _)
OuterLoop(l, dyear, W) ==
    IF InLoop(l) THEN OuterLoop(InnerLoop(l, dyear, W), dyear, W) ELSE l
GeoMag(dyear, position_itrs, W) ==
    Result(OuterLoop(Prologue(position_itrs), dyear, W))

\* ------------------------------------------------------------ state machine
VARIABLES
    WMM,     \* the ConstModel constants of the header, by name
    pc,      \* pc[c]: where invocation c of GeoMag is
    args,    \* args[c]: its arguments dyear, position_itrs and WMM (a name)
    loc,     \* loc[c]: its locals
    ret,     \* ret[c]: the Vector it returned
    steps,   \* steps[c]: history, the passes through the loop body so far
    lk       \* a lookup made on a store directly: its arguments and results

vars == <<WMM, pc, args, loc, ret, steps, lk>>

Calls == 1..NumCalls
None == [k |-> "none"]

\* the positions: integer coordinates with an integer norm
Positions ==
    {Vector(Q(3), Q(4), Q(0)), Vector(Q(1), Q(-2), Q(2)),
     Vector(Q(-2), Q(3), Q(6)), Vector(Q(0), Q(0), Q(1))}
HalfYears == 0..MaxHalfYears
\* the decimal year h half years after the epoch of store id
YearOf(id, h) == FAdd(Models[id].epoch, FMul(Half, FromInt(h)))
ArgSet ==
    {[dyear |-> YearOf(id, h), position_itrs |-> p, WMM |-> id] :
        id \in ModelNames, h \in HalfYears, p \in Positions}

\* Enter with px declared without its initialiser: an indeterminate value
EnterPxUninitialised(c) ==
    /\ pc[c] = "entry"
    /\ \E u \in {Q(0), Q(1)} :
          loc' = [loc EXCEPT ![c] = [Prologue(args[c].position_itrs) EXCEPT !.px = u]]
    /\ pc' = [pc EXCEPT ![c] = "loop"]
    /\ UNCHANGED <<WMM, args, ret, steps, lk>>

\* lines 89-112: the call evaluates the initialisers of its locals
Enter(c) ==
    /\ pc[c] = "entry"
    /\ loc' = [loc EXCEPT ![c] = Prologue(args[c].position_itrs)]
    /\ pc' = [pc EXCEPT ![c] = "loop"]
    /\ UNCHANGED <<WMM, args, ret, steps, lk>>

\* Step with px, py and pz declared static: one cell each for all invocations
StepStaticAccumulators(c) ==
    /\ pc[c] = "loop"
    /\ InLoop(loc[c])
    /\ LET l == Body(loc[c], args[c].dyear, WMM[args[c].WMM])
       IN  loc' = [d \in Calls |->
                     IF d = c THEN l
                     ELSE IF pc[d] = "loop"
                          THEN [loc[d] EXCEPT !.px = l.px, !.py = l.py, !.pz = l.pz]
                          ELSE loc[d]]
    /\ steps' = [steps EXCEPT ![c] = steps[c] + 1]
    /\ UNCHANGED <<WMM, pc, args, ret, lk>>

\* lines 113-154: one pass through the body of the inner loop
Step(c) ==
    /\ pc[c] = "loop"
    /\ InLoop(loc[c])
    /\ loc' = [loc EXCEPT ![c] = Body(loc[c], args[c].dyear, WMM[args[c].WMM])]
    /\ steps' = [steps EXCEPT ![c] = steps[c] + 1]
    /\ UNCHANGED <<WMM, pc, args, ret, lk>>

\* line 155
Return(c) ==
    /\ pc[c] = "loop"
    /\ ~InLoop(loc[c])
    /\ ret' = [ret EXCEPT ![c] = Result(loc[c])]
    /\ pc' = [pc EXCEPT ![c] = "done"]
    /\ UNCHANGED <<WMM, args, loc, steps, lk>>

Next == \E c \in Calls : Enter(c) \/ Step(c) \/ Return(c)

InitCalls(active, stores) ==
    /\ WMM = stores
    /\ pc = [c \in Calls |-> IF c \in active THEN "entry" ELSE "idle"]
    /\ loc = [c \in Calls |-> None]
    /\ ret = [c \in Calls |-> None]
    /\ steps = [c \in Calls |-> 0]

\* one invocation, any arguments
Init ==
    /\ InitCalls({1}, Models)
    /\ lk = None
    /\ \E a \in ArgSet : args = [c \in Calls |-> IF c = 1 THEN a ELSE None]

Spec == Init /\ [][Next]_vars

\* GeoMag is straight-line code in two counted loops: a call that has
\* started keeps running
FairSpec == Spec /\ WF_vars(Next)

\* NumCalls invocations in flight together on one store, their passes through
\* the loop body interleaved in any order, with two sets of arguments in turn
ConcArgs ==
    <<[dyear |-> YearOf("WMM2015", 1), position_itrs |-> Vector(Q(3), Q(4), Q(0)),
       WMM |-> "WMM2015"],
      [dyear |-> YearOf("WMM2015", 3), position_itrs |-> Vector(Q(1), Q(-2), Q(2)),
       WMM |-> "WMM2015"]>>
InitConc ==
    /\ InitCalls(Calls, [id \in {"WMM2015"} |-> Models[id]])
    /\ lk = None
    /\ args = [c \in Calls |-> ConcArgs[(c % 2) + 1]]

SpecConc == InitConc /\ [][Next]_vars

\* NumCalls invocations in flight together, all with the same arguments
InitTwin ==
    /\ InitCalls(Calls, [id \in {"WMM2015"} |-> Models[id]])
    /\ lk = None
    /\ args = [c \in Calls |-> ConcArgs[2]]

SpecTwin == InitTwin /\ [][Next]_vars

\* ------------------------------------------------ calls followed by magnitude
\* a coordinate of sign s with 2^e <= |v| <= 2^(e+1), and one with |v| <= 2^e
Band(e, s) == [k |-> "fin", s |-> s, lo |-> Norm(1, e, FALSE), hi |-> Norm(1, e + 1, TRUE)]
Below(e, s) == [k |-> "fin", s |-> s, lo |-> NoLow, hi |-> Norm(1, e, TRUE)]
\* a table entry of either sign with |v| <= 2^e
Within(e) == [k |-> "fin", s |-> 0, lo |-> NoLow, hi |-> Norm(1, e, TRUE)]

\* Every position on or above the reference sphere of radius EARTH_R has a
\* coordinate of magnitude at least EARTH_R / sqrt(3) > 2^SurfaceExp metres.
SurfaceExp == 21
Signs == {1, -1}
FarCoords ==
    {Band(e, s) : e \in SurfaceExp..(MaxPosExp - 1), s \in Signs}
        \cup {Below(SurfaceExp, s) : s \in Signs}
\* the positions by magnitude: every combination of the coordinate classes,
\* the origin, and a point of the x axis between 1 m and 2 m from it
MagPositions ==
    {Vector(x, y, z) : x \in FarCoords, y \in FarCoords, z \in FarCoords}
        \cup {Vector(Zero, Zero, Zero), Vector(Band(0, 1), Zero, Zero)}

\* the stores by magnitude.  "Shipped" bounds the three stores of the header:
\* an epoch between 1024 and 2048, main-field entries up to 2^15 nT and
\* secular-variation entries up to 2^5 nT/year.  "AnyFinite" has entries up
\* to 2^127, finite like every entry of "Shipped".
MagTable(e) == [i \in 0..(NUMCOF - 1) |-> Within(e)]
MagModel(main, secular) ==
    [epoch |-> Band(10, 1),
     Main_Field_Coeff_C |-> MagTable(main),
     Main_Field_Coeff_S |-> MagTable(main),
     Secular_Var_Coeff_C |-> MagTable(secular),
     Secular_Var_Coeff_S |-> MagTable(secular)]
MagModelNames == {"Shipped", "AnyFinite"}
MagModels ==
    [id \in MagModelNames |->
        IF id = "Shipped" THEN MagModel(15, 5) ELSE MagModel(127, 127)]
\* a decimal year between 1024 and 2048
MagArgSet ==
    {[dyear |-> Band(10, 1), position_itrs |-> p, WMM |-> id] :
        id \in MagModelNames, p \in MagPositions}

\* one invocation, its arguments given by magnitude
InitMag ==
    /\ InitCalls({1}, MagModels)
    /\ lk = None
    /\ \E a \in MagArgSet : args = [c \in Calls |-> IF c = 1 THEN a ELSE None]

SpecMag == InitMag /\ [][Next]_vars

\* ------------------------------------------------- lookups on a store alone
\* the packing domain of the tables
Pairs == {p \in (0..NMAX) \X (0..NMAX) : p[2] <= p[1]}

\* a caller reads the C and the S coefficient of (n, m) at dyear from store W,
\* and the C coefficient of a second pair (n2, m2)
DoLookup ==
    /\ lk.pc = "call"
    /\ lk' = [lk EXCEPT !.pc = "ret",
                        !.index = Index(lk.n, lk.m),
                        !.index2 = Index(lk.n2, lk.m2),
                        !.c = C(WMM[lk.W], lk.n, lk.m, lk.dyear),
                        !.s = S(WMM[lk.W], lk.n, lk.m, lk.dyear),
                        !.c2 = C(WMM[lk.W], lk.n2, lk.m2, lk.dyear)]
    /\ UNCHANGED <<WMM, pc, args, loc, ret, steps>>

NextStore == DoLookup

InitStore ==
    /\ InitCalls({}, Models)
    /\ args = [c \in Calls |-> None]
    /\ \E p \in Pairs, p2 \in Pairs, id \in ModelNames, h \in HalfYears :
          lk = [pc |-> "call", W |-> id, dyear |-> YearOf(id, h),
                n |-> p[1], m |-> p[2], n2 |-> p2[1], m2 |-> p2[2],
                index |-> -1, index2 |-> -1, c |-> None, s |-> None, c2 |-> None]

SpecStore == InitStore /\ [][NextStore]_vars

\* ------------------------------------------------------------------ claims
\* C1: for NMAX = 12 the index of C and S is a bijection from the pairs
\* 0 <= m <= n <= NMAX onto 0 .. NUMCOF-1, NUMCOF = 91: the index of a looked-up
\* pair lies inside the table, two lookups that land on the same index are
\* lookups of the same pair, and every slot of the table is the index of
\* some pair.
EverySlotUsed == \A k \in 0..(NUMCOF - 1) : \E p \in Pairs : Index(p[1], p[2]) = k
C1_IndexBijection ==
    lk.pc = "ret" =>
        /\ NMAX = 12 /\ NUMCOF = 91
        /\ lk.index \in 0..(NUMCOF - 1)
        /\ lk.index2 \in 0..(NUMCOF - 1)
        /\ (lk.index = lk.index2 => (lk.n = lk.n2 /\ lk.m = lk.m2))
        /\ EverySlotUsed
\* C1 witness: two different pairs of the last order have been looked up and
\* one of them landed on the last slot
C1_Witness ==
    /\ lk.pc = "ret"
    /\ lk.n = NMAX /\ lk.m = NMAX /\ lk.index = NUMCOF - 1
    /\ lk.n2 = NMAX /\ lk.m2 = NMAX - 1 /\ lk.index2 # lk.index

\* C3: for a pair of the packing domain and any time, C returns
\* Main_Field_Coeff_C[index] + (dyear - epoch) * Secular_Var_Coeff_C[index] and
\* S returns the same of the two S tables, index being Index(n, m) in both
\* reads.  Stated on the residues, without the model's float operators.
Lin(main, dt, sv) == (main.v + dt * sv.v) % P
C3_TimeCorrectedLookup ==
    lk.pc = "ret" =>
        LET W == WMM[lk.W]
            i == Index(lk.n, lk.m)
            dt == (lk.dyear.v - W.epoch.v) % P
        IN  /\ lk.c = Q(Lin(W.Main_Field_Coeff_C[i], dt, W.Secular_Var_Coeff_C[i]))
            /\ lk.s = Q(Lin(W.Main_Field_Coeff_S[i], dt, W.Secular_Var_Coeff_S[i]))
\* C3 witness: a lookup away from the epoch, where the four entries of the
\* index differ pairwise between the C and the S tables and C and S returned
\* different values
C3_Witness ==
    /\ lk.pc = "ret"
    /\ lk.dyear # WMM[lk.W].epoch
    /\ lk.m >= 1
    /\ WMM[lk.W].Main_Field_Coeff_C[lk.index] # WMM[lk.W].Main_Field_Coeff_S[lk.index]
    /\ WMM[lk.W].Secular_Var_Coeff_C[lk.index] # WMM[lk.W].Secular_Var_Coeff_S[lk.index]
    /\ WMM[lk.W].Secular_Var_Coeff_C[lk.index] # Q(0)
    /\ lk.c # lk.s

\* C2: in a call of GeoMag every lookup WMM.C(n', m', dyear) or
\* WMM.S(n', m', dyear) made under one of the four guards has
\* 0 <= m' <= n' <= NMAX and an index in 0 .. NUMCOF-1, although the traversal
\* runs to degree and order NMAX+1; no accumulator ever holds the value of an
\* out-of-bounds read.
C2_LookupsInDomain ==
    \A c \in Calls :
        pc[c] \in {"loop", "done"} =>
            /\ \A r \in loc[c].reads :
                  /\ 0 <= r.m /\ r.m <= r.n /\ r.n <= NMAX
                  /\ r.index \in 0..(NUMCOF - 1)
            /\ loc[c].px # Top /\ loc[c].py # Top /\ loc[c].pz # Top
\* C2 witness: the pass at (NMAX+1, NMAX+1), the last one, has read (NMAX, NMAX)
C2_Witness ==
    \E c \in Calls :
        /\ pc[c] = "loop" /\ ~InLoop(loc[c]) /\ steps[c] > 0
        /\ \E r \in loc[c].reads : r.n = NMAX /\ r.m = NMAX /\ r.index = NUMCOF - 1

\* C10 as stated: at every visited pair at most one of the four rules applies
C10_AtMostOneRule ==
    \A c \in Calls : pc[c] \in {"loop", "done"} => Cardinality(loc[c].rules) <= 1
\* C10 amended: the four rules are not disjoint.  At every visited pair at
\* most three of them apply, and the only two that exclude each other are
\* the second (m >= 2) and the third (m = 1).
C10_RulesTwoAndThreeExclusive ==
    \A c \in Calls :
        pc[c] \in {"loop", "done"} =>
            /\ Cardinality(loc[c].rules) <= 3
            /\ ~({2, 3} \subseteq loc[c].rules)
\* C10 witness: a pass that applied three rules
C10_Witness ==
    \E c \in Calls : pc[c] = "loop" /\ Cardinality(loc[c].rules) = 3

\* the stores with the epoch and the main field of W: the ones of the header
\* and W with other secular-variation tables
AltSeeds == {11, 12}
SameMainField(W) ==
    {WMM[id] : id \in {i \in ModelNames :
                          /\ WMM[i].epoch = W.epoch
                          /\ WMM[i].Main_Field_Coeff_C = W.Main_Field_Coeff_C
                          /\ WMM[i].Main_Field_Coeff_S = W.Main_Field_Coeff_S}}
    \cup {[W EXCEPT !.Secular_Var_Coeff_C = Table(k),
                    !.Secular_Var_Coeff_S = Table(k + 2)] : k \in AltSeeds}

\* C4: a call with dyear equal to the epoch of its store returns what GeoMag
\* returns for the same dyear and position on any store with the same epoch
\* and main-field tables, whatever its secular-variation tables.
C4_EpochIdentity ==
    \A c \in Calls :
        (pc[c] = "done" /\ args[c].dyear = WMM[args[c].WMM].epoch) =>
            \A W2 \in SameMainField(WMM[args[c].WMM]) :
                ret[c] = GeoMag(args[c].dyear, args[c].position_itrs, W2)
\* C4 witness: a call at the epoch has returned a field with no zero
\* component, and a store with other secular-variation tables gives another
\* field half a year later
C4_Witness ==
    \E c \in Calls :
        /\ pc[c] = "done" /\ args[c].dyear = WMM[args[c].WMM].epoch
        /\ ret[c].x # Q(0) /\ ret[c].y # Q(0) /\ ret[c].z # Q(0)
        /\ \E W2 \in SameMainField(WMM[args[c].WMM]) :
              GeoMag(FAdd(args[c].dyear, Half), args[c].position_itrs, W2)
                  # GeoMag(FAdd(args[c].dyear, Half), args[c].position_itrs,
                           WMM[args[c].WMM])

\* componentwise operations on Vectors
VSub(u, v) == Vector(FSub(u.x, v.x), FSub(u.y, v.y), FSub(u.z, v.z))
VScale(k, u) == Vector(FMul(k, u.x), FMul(k, u.y), FMul(k, u.z))

\* C5: for a fixed position and store the result is affine in dyear, in exact
\* arithmetic: GeoMag(t) - GeoMag(epoch) = (t - epoch) * (GeoMag(epoch + 1) -
\* GeoMag(epoch)) in every component.
C5_AffineInTime ==
    \A c \in Calls :
        pc[c] = "done" =>
            LET W == WMM[args[c].WMM]
                p == args[c].position_itrs
                G0 == GeoMag(W.epoch, p, W)
                G1 == GeoMag(FAdd(W.epoch, Q(1)), p, W)
            IN  VSub(ret[c], G0) = VScale(FSub(args[c].dyear, W.epoch), VSub(G1, G0))
\* C5 witness: a call at a time that is neither the epoch nor a year after it
\* has returned, and the field is not constant in time
C5_Witness ==
    \E c \in Calls :
        /\ pc[c] = "done"
        /\ args[c].dyear # WMM[args[c].WMM].epoch
        /\ args[c].dyear # FAdd(WMM[args[c].WMM].epoch, Q(1))
        /\ ret[c] # GeoMag(WMM[args[c].WMM].epoch, args[c].position_itrs,
                           WMM[args[c].WMM])

NumSteps == ((NMAX + 2) * (NMAX + 3)) \div 2
\* C7: every call of GeoMag terminates, and it returns after exactly
\* (NMAX+2)*(NMAX+3)/2 = 105 passes through the loop body, whatever the
\* position, the time and the store.
C7_TerminatesAfter105Steps ==
    /\ \A c \in Calls : (pc[c] = "entry") ~> (pc[c] = "done")
    /\ [](\A c \in Calls :
            /\ steps[c] <= NumSteps
            /\ pc[c] = "done" => (steps[c] = NumSteps /\ steps[c] = 105))
\* C7 witness: a call away from the epoch has returned after 105 passes
C7_Witness ==
    \E c \in Calls :
        /\ pc[c] = "done" /\ steps[c] = 105
        /\ args[c].dyear # WMM[args[c].WMM].epoch

\* the locals of a call with arguments a run alone, on the stores as built:
\* SoloTrace(a)[j + 1] are its locals after j passes.  RowTrace is one run of
\* the inner loop from the locals l, AllRows the runs of the outer loop.
RECURSIVE RowTrace(_, _)
RowTrace(l, a) ==
    Then(Body(l, a.dyear, Models[a.WMM]),
         LAMBDA l1 : IF l1.m = l.m THEN <<l1>> \o RowTrace(l1, a) ELSE <<l1>>)
RECURSIVE AllRows(_, _)
AllRows(l, a) ==
    IF InLoop(l)
    THEN Then(RowTrace(l, a), LAMBDA r : r \o AllRows(r[Len(r)], a))
    ELSE <<>>
SoloTrace(a) == <<Prologue(a.position_itrs)>> \o AllRows(Prologue(a.position_itrs), a)
SoloRuns == [a \in {ConcArgs[i] : i \in DOMAIN ConcArgs} |-> SoloTrace(a)]

\* C8: GeoMag is reentrant over shared stores.  With the passes of several
\* invocations interleaved in any order, the stores keep the contents they
\* were built with, the locals of each invocation are after each pass what
\* they are when it runs alone, and each invocation returns what it returns
\* when run alone.
C8_Reentrant ==
    /\ \A id \in DOMAIN WMM : WMM[id] = Models[id]
    /\ \A c \in Calls :
          /\ pc[c] \in {"loop", "done"} => loc[c] = SoloRuns[args[c]][steps[c] + 1]
          /\ pc[c] = "done" => ret[c] = Result(SoloRuns[args[c]][NumSteps + 1])
\* C8 witness: an invocation has returned while another one, with other
\* arguments on the same store, is in the middle of its loops
C8_Witness ==
    \E c \in Calls : \E d \in Calls :
        /\ pc[c] = "done" /\ pc[d] = "loop"
        /\ steps[d] > 0 /\ steps[d] < NumSteps
        /\ args[c] # args[d] /\ args[c].WMM = args[d].WMM
        /\ ret[c].x # Q(0)

SurelyFinite(v) == v.k \in {"zero", "fin"}
SurelyNotFinite(v) == v.k \in {"inf", "nan"}
SurelyPositive(v) == v.k = "fin" /\ v.s = 1 /\ v.lo # NoLow
FiniteStore(W) ==
    /\ SurelyFinite(W.epoch)
    /\ \A i \in 0..(NUMCOF - 1) :
          /\ SurelyFinite(W.Main_Field_Coeff_C[i]) /\ SurelyFinite(W.Main_Field_Coeff_S[i])
          /\ SurelyFinite(W.Secular_Var_Coeff_C[i]) /\ SurelyFinite(W.Secular_Var_Coeff_S[i])
\* some coordinate is at least 2^SurfaceExp metres in magnitude
OutsideCore(p) ==
    \E v \in {p.x, p.y, p.z} :
        v.k = "fin" /\ v.lo # NoLow /\ v.lo.e + MantBits - 1 >= SurfaceExp

\* C9 as stated: for every position with r^2 = x^2+y^2+z^2 > 0 and every
\* store with finite entries, no component of the vector GeoMag returns is
\* an infinity or a NaN in single precision.
C9_FiniteWheneverRsqrdPositive ==
    \A c \in Calls :
        (/\ pc[c] = "done"
         /\ SurelyPositive(loc[c].rsqrd)
         /\ FiniteStore(WMM[args[c].WMM]))
        => (/\ ~SurelyNotFinite(ret[c].x)
            /\ ~SurelyNotFinite(ret[c].y)
            /\ ~SurelyNotFinite(ret[c].z))
\* C9, amended: for every position with a coordinate of magnitude at least
\* 2^21 m and no coordinate above 2^MaxPosExp m (every position on or above
\* the reference sphere up to that distance is one), a decimal year and an
\* epoch between 1024 and 2048, and every store with main-field entries up
\* to 2^15 and secular-variation entries up to 2^5 in magnitude, all three
\* components of the vector GeoMag returns are finite in single precision.
C9_FiniteOutsideCore ==
    \A c \in Calls :
        (/\ pc[c] = "done"
         /\ OutsideCore(args[c].position_itrs)
         /\ WMM[args[c].WMM] = MagModels["Shipped"])
        => (/\ SurelyFinite(ret[c].x)
            /\ SurelyFinite(ret[c].y)
            /\ SurelyFinite(ret[c].z))
\* C9 witness: a call has returned for a position in the lowest band of
\* magnitudes of x and z, the shell that holds the reference sphere, with
\* the entries of the shipped magnitudes, and its components are finite and
\* not known to be 0
C9_Witness ==
    \E c \in Calls :
        /\ pc[c] = "done"
        /\ args[c].position_itrs = Vector(Band(SurfaceExp, 1), Below(SurfaceExp, -1), Band(SurfaceExp, -1))
        /\ WMM[args[c].WMM] = MagModels["Shipped"]
        /\ ret[c].x.k = "fin" /\ ret[c].y.k = "fin" /\ ret[c].z.k = "fin"

\* The full table of the recursion, as the specification defines it, for the
\* position p: TabDiag(m, q) is the entry (m, m) and TabColumn(n, m, q) the
\* entries (m, m) .. (n, m) of order m, q holding a, b, f, g and V(0,0).
Geometry(p) ==
    LET rsqrd == FAdd(FAdd(FMul(p.x, p.x), FMul(p.y, p.y)), FMul(p.z, p.z))
    IN  [a |-> FDiv(FMul(p.x, EARTH_R), rsqrd), b |-> FDiv(FMul(p.y, EARTH_R), rsqrd),
         f |-> FDiv(FMul(p.z, EARTH_R), rsqrd), g |-> FMul(EARTH_R, FDiv(EARTH_R, rsqrd)),
         V00 |-> FDiv(EARTH_R, FSqrt(rsqrd))]
RECURSIVE TabDiag(_, _)
TabDiag(m, q) ==
    IF m = 0 THEN [V |-> q.V00, W |-> Q(0)]
    ELSE Then(TabDiag(m - 1, q),
              LAMBDA d :
                [V |-> FMul(FromInt(2 * m - 1), FSub(FMul(q.a, d.V), FMul(q.b, d.W))),
                 W |-> FMul(FromInt(2 * m - 1), FAdd(FMul(q.a, d.W), FMul(q.b, d.V)))])
TabNext(col, n, m, q) ==
    LET one == col[Len(col)]
        two == IF Len(col) >= 2 THEN col[Len(col) - 1] ELSE [V |-> Q(0), W |-> Q(0)]
    IN  [V |-> FDiv(FSub(FMul(FMul(FromInt(2 * n - 1), q.f), one.V),
                         FMul(FMul(FromInt(n + m - 1), q.g), two.V)),
                    FromInt(n - m)),
         W |-> FDiv(FSub(FMul(FMul(FromInt(2 * n - 1), q.f), one.W),
                         FMul(FMul(FromInt(n + m - 1), q.g), two.W)),
                    FromInt(n - m))]
RECURSIVE TabColumn(_, _, _)
TabColumn(n, m, q) ==
    IF n = m THEN <<TabDiag(m, q)>>
    ELSE Then(TabColumn(n - 1, m, q), LAMBDA col : Append(col, TabNext(col, n, m, q)))
FullTable ==
    [p \in Positions |-> [m \in 0..(NMAX + 1) |-> TabColumn(NMAX + 1, m, Geometry(p))]]
TabV(p, n, m) == FullTable[p][m][n - m + 1].V
TabW(p, n, m) == FullTable[p][m][n - m + 1].W
\* two floats of the exact domain are the same number
Same(u, v) == ToQ(u) = ToQ(v)

\* C11: the three scalars per family refine the full table.  In every pass
\* through the loop body, at the pair (n, m) the pass is made for, the
\* locals the accumulation rules see are Vnm = V(n,m), Wnm = W(n,m),
\* Vtop = V(m,m), Wtop = W(m,m), and Vprev, Wprev are V(n-1,m), W(n-1,m)
\* when n > m and 0 when n = m.
C11_RefinesFullTable ==
    [][\A c \in Calls :
          steps'[c] # steps[c] =>
              LET n == loc[c].n
                  m == loc[c].m
                  p == args[c].position_itrs
                  l == loc'[c]
              IN  /\ Same(l.Vnm, TabV(p, n, m)) /\ Same(l.Wnm, TabW(p, n, m))
                  /\ Same(l.Vtop, TabV(p, m, m)) /\ Same(l.Wtop, TabW(p, m, m))
                  /\ Same(l.Vprev, IF n > m THEN TabV(p, n - 1, m) ELSE Q(0))
                  /\ Same(l.Wprev, IF n > m THEN TabW(p, n - 1, m) ELSE Q(0))]_vars
\* C11 witness: a call is past the pass for (5, 2), two degrees above the
\* diagonal of an order that follows a diagonal step, and holds non-zero
\* current, previous and diagonal values of both families
C11_Witness ==
    \E c \in Calls :
        /\ pc[c] = "loop" /\ loc[c].n = 6 /\ loc[c].m = 2
        /\ \A v \in {loc[c].Vnm, loc[c].Wnm, loc[c].Vprev, loc[c].Wprev,
                      loc[c].Vtop, loc[c].Wtop} : ~Same(v, Q(0))
        /\ loc[c].Vnm # loc[c].Vprev /\ loc[c].Vnm # loc[c].Vtop

\* the pairs <<n, m>> of the traversal, their order (increasing m and, within
\* one m, increasing n), and the place of each pair in that order
LoopPairs == {p \in (0..(NMAX + 1)) \X (0..(NMAX + 1)) : p[2] <= p[1]}
Before(p, q) == p[2] < q[2] \/ (p[2] = q[2] /\ p[1] < q[1])
Rank == [q \in LoopPairs |-> Cardinality({p \in LoopPairs : Before(p, q)}) + 1]

\* C12: the traversal is one strictly forward pass.  The k-th pass through
\* the loop body is made for the k-th pair of 0 <= m <= n <= NMAX+1 in order
\* of increasing m and, within one m, increasing n, so every such pair is
\* visited exactly once, no other pair is, and none is revisited; the call
\* returns only after the pass for (NMAX+1, NMAX+1), the last pair.
C12_SingleForwardPass ==
    [][\A c \in Calls :
          /\ steps'[c] # steps[c] =>
                /\ <<loc[c].n, loc[c].m>> \in LoopPairs
                /\ steps'[c] = steps[c] + 1
                /\ Rank[<<loc[c].n, loc[c].m>>] = steps'[c]
          /\ (pc'[c] = "done" /\ pc[c] # "done") =>
                /\ steps[c] = Rank[<<NMAX + 1, NMAX + 1>>]
                /\ steps[c] = Cardinality(LoopPairs)]_vars
\* C12 witness: a call has made its pass for the last pair and left both
\* loops, with a pass for every pair behind it, and has returned
C12_Witness ==
    \E c \in Calls :
        /\ pc[c] = "done" /\ ~InLoop(loc[c])
        /\ steps[c] = Cardinality(LoopPairs)
        /\ ret[c] = Result(loc[c])

\* the store W with the degree-0 entries of the two C tables replaced by u
WithDegreeZero(W, u) ==
    [W EXCEPT !.Main_Field_Coeff_C[Index(0, 0)] = u,
              !.Secular_Var_Coeff_C[Index(0, 0)] = u]
\* values no table entry has
OtherValues == {Q(MaxCoeff + 1), Q(0 - MaxCoeff - 1)}

\* C13: over one complete call of GeoMag the pairs (degree, order) passed to
\* WMM.C are exactly the pairs with 1 <= n <= NMAX and 0 <= m <= n.  Until
\* the call returns they are among these pairs; the pair (0, 0), of table
\* index 0, is never one of them, and the vector returned is the one GeoMag
\* returns on the store with other values in the degree-0 entries.
C13_CLookupsAreDegreesOneToNMAX ==
    \A c \in Calls :
        /\ pc[c] \in {"loop", "done"} =>
              /\ loc[c].seenC \subseteq {p \in Pairs : p[1] >= 1}
              /\ <<0, 0>> \notin loc[c].seenC
        /\ pc[c] = "done" =>
              /\ loc[c].seenC = {p \in Pairs : p[1] >= 1}
              /\ Cardinality(loc[c].seenC) = NUMCOF - 1
              /\ \A u \in OtherValues :
                    ret[c] = GeoMag(args[c].dyear, args[c].position_itrs,
                                    WithDegreeZero(WMM[args[c].WMM], u))
\* C13 witness: a call away from the epoch has returned with the lookups of
\* (1, 0) and (NMAX, NMAX) among those it made, on a store whose degree-0
\* entries are not 0
C13_Witness ==
    \E c \in Calls :
        /\ pc[c] = "done"
        /\ {<<1, 0>>, <<NMAX, NMAX>>} \subseteq loc[c].seenC
        /\ args[c].dyear # WMM[args[c].WMM].epoch
        /\ WMM[args[c].WMM].Main_Field_Coeff_C[0] # Q(0)
        /\ WMM[args[c].WMM].Secular_Var_Coeff_C[0] # Q(0)
        /\ ret[c].z # Q(0)

====
